---- MODULE Spec2Model ----
(***************************************************************************)
(* Event ticket inventory (streamlit_pg_08.py): the tickets table in the   *)
(* database, the process-wide read cache of load_all_data, and the script  *)
(* runs of the operator sessions (load, dashboard, reset / sale / reverse  *)
(* sale handlers, recent sales, full-table write-through).                 *)
(***************************************************************************)
EXTENDS Integers, Sequences, FiniteSets, TLC

VARIABLES
    db,             \* the database: [tickets: sequence of raw rows, menu: set of <<Type, Category>>]
    cache,          \* st.cache_data entry of load_all_data: <<>> (empty) or <<tickets_df>>
    pc,             \* per session: "idle" (no script run yet), "load:49", "load:50"
                    \* (load_all_data computing, before line 49, before line 50;
                    \* ":orphan" when the cache was cleared meanwhile),
                    \* "running" (loaded, before a handler), "<handler>:<line>" (inside
                    \* a save, before that line) or "done" (the run is over)
    tickets,        \* per session: the DataFrame `tickets` of the script run
    menu,           \* per session: the DataFrame `menu` of the script run
    summary_final,  \* per session: the dashboard table of the script run
    msg,            \* per session: what the handler of the script run reported, and
                    \* the tid of its form
    recent_sales,   \* per session: the Recent Sales History of the script run
    now,            \* the wall clock read by pd.Timestamp.now()
    runs            \* the number of script runs started so far

vars == <<db, cache, pc, tickets, menu, summary_final, msg, recent_sales, now, runs>>

----------------------------------------------------------------------------
(* Bounds of the model *)

MaxClock == 2
MaxRuns == 3
MaxSeatsUsed == 2
ReconTickets == 3

Sessions == {"A", "B"}

CustomerNames == {"Bob", "Carol"}
Passwords == {"admin123", "wrong-secret", ""}

----------------------------------------------------------------------------
(* Cell values.  A nullable number / timestamp is a record, so that NULL,  *)
(* NaN and None never have to be compared with an integer.                 *)

NaN == [nan |-> TRUE, v |-> 0]
Num(n) == [nan |-> FALSE, v |-> n]

\* A raw database cell of a numeric column: a number, NULL, or non-numeric text.
\* In a frame, a cell of a column that is not converted: a number of a numeric
\* column (CellNum), a number held in a column of dtype object (CellObj), or a
\* string (CellText).  The cells of a frame column are all CellNum (the column
\* is numeric) or none of them is (the column is of dtype object).
CellNum(n) == [k |-> "num", v |-> n]
CellObj(n) == [k |-> "obj", v |-> n]
CellNull == [k |-> "null", v |-> 0]
CellText == [k |-> "text", v |-> 0]

\* A raw text cell: NULL or a string.
StrNull == [null |-> TRUE, s |-> ""]
Str(s) == [null |-> FALSE, s |-> s]

\* pd.to_numeric(col, errors="coerce"): numbers stay, NULL and text become NaN.
to_numeric(c) == IF c.k = "num" THEN Num(c.v) ELSE NaN

\* Series.fillna(d) on a numeric column.
fillna(x, d) == IF x.nan THEN d ELSE x.v

\* Whether Series.fillna casts a column of dtype object that holds only
\* numbers after the fill to a numeric dtype: pandas before 3.0 does, pandas
\* 3.0 and later leaves the column as it is.  The program does not pin pandas.
Downcasts == BOOLEAN

\* The column Visitor_Seats of the frame of lines 49-52 is of dtype object:
\* read_sql gives a column of strings (a text among the cells) or of None
\* only as object; fillna(0) keeps a column with a string as it is, and
\* leaves a column that was all None to the downcast (a column of no row stays
\* object).  A column of numbers, or of numbers and NULL, is read as int64 or
\* float64.
object_read(col, downcast) ==
    \/ col = <<>>
    \/ \E i \in 1..Len(col) : col[i].k = "text"
    \/ (\A i \in 1..Len(col) : col[i].k = "null") /\ ~downcast

\* Series.fillna(d) on one cell of a column that is not converted: a NULL cell
\* becomes the number d, every other cell (a number, a text) stays what it
\* is; object tells the dtype of the column.
fillna_cell(c, d, object) ==
    IF c.k = "text" THEN c
    ELSE LET n == IF c.k = "null" THEN d ELSE c.v
         IN  IF object THEN CellObj(n) ELSE CellNum(n)

\* "0" put in front of s up to width w.
RECURSIVE pad(_, _)
pad(s, w) == IF Len(s) >= w THEN s ELSE pad("0" \o s, w)

\* str.zfill(w) (pandas 1.5 and later pads as Python's str.zfill does): the
\* zeros go behind a leading sign, "-7" becomes "-007".
zfill(s, w) ==
    IF Len(s) >= w THEN s
    ELSE IF Len(s) >= 1 /\ SubSeq(s, 1, 1) \in {"+", "-"}
         THEN SubSeq(s, 1, 1) \o pad(SubSeq(s, 2, Len(s)), w - 1)
         ELSE pad(s, w)

\* load_all_data, lines 52-58, on one row; object tells the dtype of the
\* Visitor_Seats column.
NormalizeRow(r, object) ==
    [ TicketID      |-> zfill(r.TicketID, 4),
      Type          |-> r.Type,
      Category      |-> r.Category,
      Admit         |-> fillna(to_numeric(r.Admit), 1),
      Seq           |-> to_numeric(r.Seq),
      Sold          |-> (r.Sold = "true"),
      Customer      |-> IF r.Customer.null THEN "" ELSE r.Customer.s,
      Visited       |-> (r.Visited = "true"),
      Visitor_Seats |-> fillna_cell(r.Visitor_Seats, 0, object),
      Timestamp     |-> r.Timestamp ]

\* RowToSql with the Admit column written as NULL.
RowToSqlWithoutAdmit(t) ==
    [ TicketID      |-> t.TicketID,
      Type          |-> t.Type,
      Category      |-> t.Category,
      Admit         |-> CellNull,
      Seq           |-> IF t.Seq.nan THEN CellNull ELSE CellNum(t.Seq.v),
      Sold          |-> IF t.Sold THEN "true" ELSE "false",
      Customer      |-> Str(t.Customer),
      Visited       |-> IF t.Visited THEN "true" ELSE "false",
      Visitor_Seats |-> IF t.Visitor_Seats.k = "text" THEN CellText
                        ELSE CellNum(t.Visitor_Seats.v),
      Timestamp     |-> t.Timestamp ]

\* DataFrame.to_sql on one row: what the table holds after the write (a
\* number is written as a number, whatever the dtype of its column).
RowToSql(t) ==
    [ TicketID      |-> t.TicketID,
      Type          |-> t.Type,
      Category      |-> t.Category,
      Admit         |-> CellNum(t.Admit),
      Seq           |-> IF t.Seq.nan THEN CellNull ELSE CellNum(t.Seq.v),
      Sold          |-> IF t.Sold THEN "true" ELSE "false",
      Customer      |-> Str(t.Customer),
      Visited       |-> IF t.Visited THEN "true" ELSE "false",
      Visitor_Seats |-> IF t.Visitor_Seats.k = "text" THEN CellText
                        ELSE CellNum(t.Visitor_Seats.v),
      Timestamp     |-> t.Timestamp ]

\* A nullable Timestamp cell: None, or the clock reading of the sale.  The
\* text str(pd.Timestamp.now()) has a fixed width, so it orders as the clock does.
None == [null |-> TRUE, v |-> 0]
Stamp(n) == [null |-> FALSE, v |-> n]

----------------------------------------------------------------------------
(* Persistence: load_all_data and save_tickets_df *)

\* pd.read_sql + the normalisation of lines 52-58, on the whole table.
ReadTickets(d, downcast) ==
    LET col == [i \in 1..Len(d.tickets) |-> d.tickets[i].Visitor_Seats]
        object == object_read(col, downcast)
    IN  [i \in 1..Len(d.tickets) |-> NormalizeRow(d.tickets[i], object)]

\* A frame with the dtype of the Visitor_Seats column left aside: the values
\* of the cells only.
Values(df) ==
    [i \in 1..Len(df) |->
        IF df[i].Visitor_Seats.k = "obj"
        THEN [df[i] EXCEPT !.Visitor_Seats = CellNum(df[i].Visitor_Seats.v)]
        ELSE df[i]]

\* The ticket collection the table holds: what a load reads from it, values
\* only (the downcast changes the dtype of a column, never a value).
Persisted(d) == Values(ReadTickets(d, TRUE))

\* What load_all_data() returns and st.cache_data keeps: the two frames.
load_all_data_value(df, m) == [tickets |-> df, menu |-> m]

\* A write that merges by row: a row the table holds as sold is kept when the
\* frame has it unsold.
to_sql_tickets_keeping_sold(d, df) ==
    [d EXCEPT !.tickets =
        [i \in 1..Len(df) |->
            IF i <= Len(d.tickets) /\ d.tickets[i].Sold = "true" /\ ~df[i].Sold
            THEN d.tickets[i] ELSE RowToSql(df[i])]]

\* tickets_df.to_sql("tickets", if_exists="replace"): the table is created
\* anew from the frame.  A Visitor_Seats column that holds a string is created
\* as a text column, where the numbers written are kept as text.
to_sql_tickets(d, df) ==
    LET text == \E i \in 1..Len(df) : df[i].Visitor_Seats.k = "text"
    IN  [d EXCEPT !.tickets =
            [i \in 1..Len(df) |->
                IF text THEN [RowToSql(df[i]) EXCEPT !.Visitor_Seats = CellText]
                ELSE RowToSql(df[i])]]

\* to_sql raises after it has dropped the table and created it anew: the
\* table is left empty.
to_sql_raised_emptied(d, df) == [d EXCEPT !.tickets = <<>>]

\* tickets_df.to_sql raises (the database is not reached, or the write fails
\* and its transaction is rolled back): the table is as it was.
to_sql_raised(d, df) == d

\* st.cache_data.clear()
cache_cleared == <<>>

\* menu_df.to_sql("menu", if_exists="replace"): the menu table becomes the frame.
to_sql_menu(d, m) == [d EXCEPT !.menu = m]

\* st.cache_data.clear() drops the cache of load_all_data: a call of
\* load_all_data that is computing (it has missed and stands before line 49
\* or before line 50) goes on with the dropped cache and will store its value
\* there, where no later call looks.
Orphaned(p) == [s \in Sessions |->
                  CASE p[s] = "load:49" -> "load:49:orphan"
                    [] p[s] = "load:50" -> "load:50:orphan"
                    [] OTHER -> p[s]]

----------------------------------------------------------------------------
(* Reconciliation: the dashboard summary, lines 134-170 *)

\* The rank of the strings of the model in Python's string order.
StrRank(x) == CASE x = "GA" -> 1 [] x = "Guest" -> 2 [] x = "Public" -> 3
                [] x = "VIP" -> 4 [] OTHER -> 0

\* The group key of a row: (Seq, Type, Category, Admit).
GroupKey(t) == <<t.Seq.v, t.Type, t.Category, t.Admit>>

\* groupby(...) drops the rows with a NaN key (dropna=True is the default).
GroupedRows(df) == {i \in 1..Len(df) : ~df[i].Seq.nan}

\* Lines 136-150 raise a TypeError: a text in the Visitor_Seats of a row that
\* is in a group makes the sum of the group no number that line 150 can
\* subtract (or the sum itself raises).
DashboardRaises(df) ==
    \E i \in GroupedRows(df) : df[i].Visitor_Seats.k = "text"

\* The Visitor_Seats column of a loaded frame is of dtype object: the frame of
\* an empty table (read_sql gives every column of it as object, and line 52
\* converts nothing), or a column whose cells are not those of a numeric one.
\* Total_Visitors (line 141) and Balance_Visitors (line 150) are then of
\* dtype object as well.
object_dtype(df) ==
    \/ df = <<>>
    \/ \E i \in 1..Len(df) : df[i].Visitor_Seats.k # "num"

GroupKeys(df) == {GroupKey(df[i]) : i \in GroupedRows(df)}

\* groupby sorts the group keys ascending, column by column.
KeyLess(a, b) ==
    \/ a[1] < b[1]
    \/ a[1] = b[1] /\ StrRank(a[2]) < StrRank(b[2])
    \/ a[1] = b[1] /\ a[2] = b[2] /\ StrRank(a[3]) < StrRank(b[3])
    \/ a[1] = b[1] /\ a[2] = b[2] /\ a[3] = b[3] /\ a[4] < b[4]

RECURSIVE SortedKeys(_)
SortedKeys(S) ==
    IF S = {} THEN <<>>
    ELSE LET m == CHOOSE x \in S : \A y \in S \ {x} : KeyLess(x, y)
         IN  <<m>> \o SortedKeys(S \ {m})

RECURSIVE SumOver(_, _)
SumOver(S, f) ==
    IF S = {} THEN 0
    ELSE LET i == CHOOSE x \in S : TRUE IN f[i] + SumOver(S \ {i}, f)

\* A Seq cell of the summary: a number, or the label of the totals row.
SeqValue(n) == [label |-> "", v |-> n]
SeqLabel(l) == [label |-> l, v |-> 0]

\* SummaryRow with Balance_Visitors taken from the seats of all the tickets of
\* the group instead of the seats sold.
SummaryRowBalanceFromTotalSeats(df, k) ==
    LET members == {i \in GroupedRows(df) : GroupKey(df[i]) = k}
        Total_Tickets == Cardinality(members)
        Tickets_Sold == Cardinality({i \in members : df[i].Sold})
        Total_Visitors == SumOver(members, [i \in members |-> df[i].Visitor_Seats.v])
    IN  [ Seq              |-> SeqValue(k[1]),
          Type             |-> k[2],
          Category         |-> k[3],
          Admit            |-> k[4],
          Total_Tickets    |-> Total_Tickets,
          Tickets_Sold     |-> Tickets_Sold,
          Total_Seats      |-> Total_Tickets * k[4],
          Seats_sold       |-> Tickets_Sold * k[4],
          Total_Visitors   |-> Total_Visitors,
          Balance_Tickets  |-> Total_Tickets - Tickets_Sold,
          Balance_Seats    |-> (Total_Tickets - Tickets_Sold) * k[4],
          Balance_Visitors |-> Total_Tickets * k[4] - Total_Visitors ]

\* One row of `summary`, lines 136-150.
SummaryRow(df, k) ==
    LET members == {i \in GroupedRows(df) : GroupKey(df[i]) = k}
        One == [i \in members |-> 1]
        SoldOf == [i \in members |-> IF df[i].Sold THEN 1 ELSE 0]
        SeatsOf == [i \in members |-> df[i].Visitor_Seats.v]
        Total_Tickets == SumOver(members, One)
        Tickets_Sold == SumOver(members, SoldOf)
        Total_Visitors == SumOver(members, SeatsOf)
        Total_Seats == Total_Tickets * k[4]
        Seats_sold == Tickets_Sold * k[4]
    IN  [ Seq              |-> SeqValue(k[1]),
          Type             |-> k[2],
          Category         |-> k[3],
          Admit            |-> k[4],
          Total_Tickets    |-> Total_Tickets,
          Tickets_Sold     |-> Tickets_Sold,
          Total_Seats      |-> Total_Seats,
          Seats_sold       |-> Seats_sold,
          Total_Visitors   |-> Total_Visitors,
          Balance_Tickets  |-> Total_Tickets - Tickets_Sold,
          Balance_Seats    |-> Total_Seats - Seats_sold,
          Balance_Visitors |-> Seats_sold - Total_Visitors ]

\* `summary` before custom_sort: one row per group, in groupby order.
Summary(df) == LET ks == SortedKeys(GroupKeys(df))
               IN  [i \in 1..Len(ks) |-> SummaryRow(df, ks[i])]

\* custom_sort's key, line 84: 10 for a Seq of 0, else int(Seq).
SortSentinel == 10
sort_key(row) == IF row.Seq.v = 0 THEN SortSentinel ELSE row.Seq.v

\* sort_values("sort_key"): rows with equal keys keep their order (the
\* insertion sort numpy's quicksort uses on arrays of fewer than 16 elements).
RECURSIVE InsertByKey(_, _)
InsertByKey(row, sorted) ==
    IF sorted = <<>> THEN <<row>>
    ELSE IF sort_key(row) < sort_key(Head(sorted)) THEN <<row>> \o sorted
    ELSE <<Head(sorted)>> \o InsertByKey(row, Tail(sorted))

RECURSIVE custom_sort(_)
custom_sort(rows) ==
    IF rows = <<>> THEN <<>>
    ELSE InsertByKey(rows[Len(rows)], custom_sort(SubSeq(rows, 1, Len(rows) - 1)))

\* The totals row, lines 168-170: the sum of every column that
\* select_dtypes(include="number") keeps, Seq overwritten by the label; the
\* columns that are not summed are missing (NaN) after the concat: Type and
\* Category, and Total_Visitors and Balance_Visitors when they are of dtype
\* object.
Totals(rows, object) ==
    LET I == 1..Len(rows)
        Col(f) == SumOver(I, f)
        cAdmit == [i \in I |-> rows[i].Admit]
        cTT == [i \in I |-> rows[i].Total_Tickets]
        cTS == [i \in I |-> rows[i].Tickets_Sold]
        cTSe == [i \in I |-> rows[i].Total_Seats]
        cSs == [i \in I |-> rows[i].Seats_sold]
        cTV == [i \in I |-> rows[i].Total_Visitors]
        cBT == [i \in I |-> rows[i].Balance_Tickets]
        cBS == [i \in I |-> rows[i].Balance_Seats]
        cBV == [i \in I |-> rows[i].Balance_Visitors]
    IN  [ Seq              |-> SeqLabel("Total"),
          Type             |-> "NaN",
          Category         |-> "NaN",
          Admit            |-> Col(cAdmit),
          Total_Tickets    |-> Col(cTT),
          Tickets_Sold     |-> Col(cTS),
          Total_Seats      |-> Col(cTSe),
          Seats_sold       |-> Col(cSs),
          Total_Visitors   |-> IF object THEN NaN ELSE Num(Col(cTV)),
          Balance_Tickets  |-> Col(cBT),
          Balance_Seats    |-> Col(cBS),
          Balance_Visitors |-> IF object THEN NaN ELSE Num(Col(cBV)) ]

\* summary_final, lines 167-170.
Dashboard(df) == LET sorted == custom_sort(Summary(df))
                 IN  sorted \o <<Totals(sorted, object_dtype(df))>>

----------------------------------------------------------------------------
(* Recent Sales History, lines 260-274 *)

\* tickets[tickets["Sold"]]
SoldRows(df) == SelectSeq(df, LAMBDA t : t.Sold)

\* The order of ascending=True: the earlier Timestamp first.
StampBefore(a, b) == ~a.null /\ (b.null \/ a.v < b.v)

\* Timestamp a sorts strictly before Timestamp b when ascending=False: the
\* later one first, a missing one last (na_position="last").
StampAfter(a, b) == ~a.null /\ (b.null \/ a.v > b.v)

\* sort_values("Timestamp", ascending=False): rows with equal Timestamps keep
\* their order.
RECURSIVE InsertByStamp(_, _)
InsertByStamp(row, sorted) ==
    IF sorted = <<>> THEN <<row>>
    ELSE IF StampAfter(row.Timestamp, Head(sorted).Timestamp) THEN <<row>> \o sorted
    ELSE <<Head(sorted)>> \o InsertByStamp(row, Tail(sorted))

RECURSIVE SortByStampDesc(_)
SortByStampDesc(rows) ==
    IF rows = <<>> THEN <<>>
    ELSE InsertByStamp(rows[Len(rows)], SortByStampDesc(SubSeq(rows, 1, Len(rows) - 1)))

\* Lines 262-269: the sold rows, latest first, numbered by Sno = 1..n, with
\* the columns shown.
RecentSalesRows(df) ==
    LET sorted == SortByStampDesc(SoldRows(df))
    IN  [i \in 1..Len(sorted) |->
            [ Sno       |-> i,
              TicketID  |-> sorted[i].TicketID,
              Category  |-> sorted[i].Category,
              Customer  |-> sorted[i].Customer,
              Timestamp |-> sorted[i].Timestamp ]]

\* The Recent Sales column of a run: not reached, or shown with its rows (no
\* rows: "No sales recorded yet.").
NotShown == [shown |-> FALSE, rows |-> <<>>]
Shown(rows) == [shown |-> TRUE, rows |-> rows]

----------------------------------------------------------------------------
(* State transitions: the handlers of one script run *)

NoMsg == [text |-> "", tid |-> ""]
Report(text, tid) == [text |-> text, tid |-> tid]

\* tickets.index[tickets["TicketID"] == tid][0]
FirstIndex(df, tid) ==
    CHOOSE i \in 1..Len(df) :
        /\ df[i].TicketID = tid
        /\ \A j \in 1..(i - 1) : df[j].TicketID # tid

\* ResetRow without line 113: the Customer column is not cleared.
ResetRowKeepsCustomer(t) == [t EXCEPT !.Sold = FALSE, !.Visited = FALSE,
                                      !.Visitor_Seats = CellNum(0), !.Timestamp = None]

\* ResetRow without line 111: the Sold column is not cleared.
ResetRowKeepsSold(t) == [t EXCEPT !.Visited = FALSE, !.Customer = "",
                                  !.Visitor_Seats = CellNum(0), !.Timestamp = None]

\* ResetRow without line 112: the Visited column is not cleared.
ResetRowKeepsVisited(t) == [t EXCEPT !.Sold = FALSE, !.Customer = "",
                                     !.Visitor_Seats = CellNum(0), !.Timestamp = None]

\* tickets.at[idx, "Visitor_Seats"] = n: the cell is set, the column keeps its
\* dtype (c is the cell before).
at_set(c, n) == IF c.k = "num" THEN CellNum(n) ELSE CellObj(n)

\* Lines 111-115 on one row (the assignments are whole columns: line 114 makes
\* Visitor_Seats a column of int64).
ResetRow(t) == [t EXCEPT !.Sold = FALSE, !.Visited = FALSE, !.Customer = "",
                         !.Visitor_Seats = CellNum(0), !.Timestamp = None]

\* SellRow that also marks the ticket as visited, with one seat used.
SellRowMarksVisited(t, cust, ts) == [t EXCEPT !.Sold = TRUE, !.Customer = cust,
                                             !.Timestamp = Stamp(ts),
                                             !.Visited = TRUE,
                                             !.Visitor_Seats = at_set(t.Visitor_Seats, 1)]

\* SellRow without line 217: the Timestamp is not set.
SellRowWithoutTimestamp(t, cust, ts) == [t EXCEPT !.Sold = TRUE, !.Customer = cust]

\* Lines 215-217 on the row of the sale.
SellRow(t, cust, ts) == [t EXCEPT !.Sold = TRUE, !.Customer = cust,
                                  !.Timestamp = Stamp(ts)]

\* ReverseRow without lines 248-249: the visit is not cleared.
ReverseRowKeepsVisit(t) == [t EXCEPT !.Sold = FALSE, !.Customer = "",
                                     !.Timestamp = None]

\* ReverseRow without line 250: the Timestamp is not cleared.
ReverseRowKeepsTimestamp(t) == [t EXCEPT !.Sold = FALSE, !.Customer = "",
                                          !.Visited = FALSE,
                                          !.Visitor_Seats = at_set(t.Visitor_Seats, 0)]

\* Lines 246-250 on the row of the reversal.
ReverseRow(t) == [t EXCEPT !.Sold = FALSE, !.Customer = "", !.Visited = FALSE,
                           !.Visitor_Seats = at_set(t.Visitor_Seats, 0),
                           !.Timestamp = None]

\* Check-in of section 4.2 on the row of the visit.
CheckInRow(t, seatsUsed) == [t EXCEPT !.Visited = TRUE,
                                      !.Visitor_Seats = at_set(t.Visitor_Seats, seatsUsed)]

\* The configured admin secret, line 110.
AdminSecret == "admin123"

\* A password test that takes any password that is typed in.
PasswordNotEmpty(pw) == pw # ""

\* The password test of line 110.
PasswordOk(pw) == pw = AdminSecret

\* menu[menu["Type"] == s_type]["Category"]
MenuCategories(m, type) == {e[2] : e \in {x \in m : x[1] = type}}

\* The value of st.selectbox("Category", ...) when the menu has no category
\* of the type: None.
NoCategory == "None"

\* Lines 201-205: the TicketIDs offered for sale, in the order of the frame
\* (no Category equals None).
avail(df, s_type, s_cat) ==
    LET rows == SelectSeq(df, LAMBDA t : /\ t.Type = s_type
                                         /\ s_cat # NoCategory /\ t.Category = s_cat
                                         /\ ~t.Sold)
    IN  [i \in 1..Len(rows) |-> rows[i].TicketID]

\* Lines 233-237: the TicketIDs offered for reversal, in the order of the frame.
sold_tickets(df, r_type, r_cat) ==
    LET rows == SelectSeq(df, LAMBDA t : /\ t.Type = r_type
                                         /\ r_cat # NoCategory /\ t.Category = r_cat
                                         /\ t.Sold)
    IN  [i \in 1..Len(rows) |-> rows[i].TicketID]

\* The value of the Category selectbox: a category of the type, or None.
CategoryChoices(m, type) ==
    IF MenuCategories(m, type) = {} THEN {NoCategory} ELSE MenuCategories(m, type)

\* The value of st.selectbox("Ticket ID", options) in the run of the confirmed
\* form.  The selectbox has no key: it is the widget of the operator's page
\* only if its options are those of the page (page_options), and then it holds
\* the operator's pick tid; with other options it is a new widget and holds
\* its first option.
Selected(options, page_options, tid) ==
    IF options = page_options THEN tid ELSE options[1]

\* The pages a confirmed form may come from, the run offering options: the
\* page that offered the same options and on which the operator picked tid
\* among them, or a page that offered others (given as no page, <<>>; the
\* page is what the session's screen shows, which is outside the state).
Pages(options, tid) ==
    {o \in {options} : \E i \in 1..Len(o) : o[i] = tid} \cup {<<>>}

\* The dashboard tab of the run of session s, lines 132-177.
RenderDashboard(s) ==
    /\ ~DashboardRaises(tickets[s])
    /\ summary_final' = [summary_final EXCEPT ![s] = Dashboard(tickets[s])]

\* The Recent Sales column of the run of session s, lines 260-274.
RenderRecentSales(s) ==
    recent_sales' = [recent_sales EXCEPT ![s] = Shown(RecentSalesRows(tickets[s]))]

\* The handlers of the run of session s have acted.
EndRun(s) == pc' = [pc EXCEPT ![s] = "done"]

\* save_tickets_df(df), lines 63-64, called by a handler of session s whose
\* ticket is tid: the table is replaced and the call stands before line 65
\* (pc at), or to_sql raises and the exception ends the run.
save_tickets_df(s, df, at, tid) ==
    /\ \/ /\ db' = to_sql_tickets(db, df)
          /\ pc' = [pc EXCEPT ![s] = at]
          /\ msg' = [msg EXCEPT ![s] = Report("", tid)]
       \/ /\ db' = to_sql_raised(db, df)
          /\ pc' = [pc EXCEPT ![s] = "done"]
          /\ msg' = [msg EXCEPT ![s] = Report("OperationalError", "")]
    /\ cache' = cache

\* A script run starts (the run before it, if any, is over: its end was
\* reached, st.rerun() was called or an exception ended it, and its frames and
\* its page are gone).  Line 91, tickets, menu = load_all_data(): the cached
\* value is returned, or (a miss; a call that finds another one computing
\* waits for it) the call goes on to compute, and stands before line 49.
RunStart(s) ==
    /\ pc[s] \in {"idle", "done"}
    /\ runs < MaxRuns
    /\ runs' = runs + 1
    /\ summary_final' = [summary_final EXCEPT ![s] = <<>>]
    /\ recent_sales' = [recent_sales EXCEPT ![s] = NotShown]
    /\ msg' = [msg EXCEPT ![s] = NoMsg]
    /\ IF cache # <<>>
       THEN /\ tickets' = [tickets EXCEPT ![s] = cache[1].tickets]
            /\ menu' = [menu EXCEPT ![s] = cache[1].menu]
            /\ pc' = [pc EXCEPT ![s] = "running"]
       ELSE /\ \A s2 \in Sessions : pc[s2] \notin {"load:49", "load:50"}
            /\ tickets' = [tickets EXCEPT ![s] = <<>>]
            /\ menu' = [menu EXCEPT ![s] = {}]
            /\ pc' = [pc EXCEPT ![s] = "load:49"]
    /\ UNCHANGED <<db, cache, now>>

\* load_all_data, line 49: the tickets table is read (the frame is given here
\* as lines 52-58 leave it).
LoadTickets(s) ==
    /\ pc[s] \in {"load:49", "load:49:orphan"}
    /\ \E downcast \in Downcasts :
          tickets' = [tickets EXCEPT ![s] = ReadTickets(db, downcast)]
    /\ pc' = [pc EXCEPT ![s] = IF pc[s] = "load:49" THEN "load:50"
                                                     ELSE "load:50:orphan"]
    /\ UNCHANGED <<db, cache, menu, summary_final, msg, recent_sales, now, runs>>

\* load_all_data goes on behind line 49: line 50 reads the menu table, the
\* frames are normalised and returned, and the cache of the call keeps them.
LoadReturn(s) ==
    /\ pc[s] \in {"load:50", "load:50:orphan"}
    /\ menu' = [menu EXCEPT ![s] = db.menu]
    /\ cache' = IF pc[s] = "load:50"
                THEN <<load_all_data_value(tickets[s], db.menu)>>
                ELSE cache
    /\ pc' = [pc EXCEPT ![s] = "running"]
    /\ UNCHANGED <<db, tickets, summary_final, msg, recent_sales, now, runs>>

\* Lines 99-101: the Refresh Data button.
RefreshData(s) ==
    /\ pc[s] = "running"
    /\ cache' = cache_cleared
    /\ pc' = [Orphaned(pc) EXCEPT ![s] = "done"]
    /\ UNCHANGED <<db, tickets, menu, summary_final, msg, recent_sales, now, runs>>

\* Lines 109-121: the Reset Database button with the password pw typed in, up
\* to line 64 of save_tickets_df.
ResetDatabase(s, pw) ==
    /\ pc[s] = "running"
    /\ IF PasswordOk(pw)
       THEN /\ tickets' = [tickets EXCEPT ![s] =
                            [i \in 1..Len(tickets[s]) |-> ResetRow(tickets[s][i])]]
            /\ save_tickets_df(s, tickets'[s], "reset:65", "")
            /\ UNCHANGED <<summary_final, recent_sales>>
       ELSE /\ msg' = [msg EXCEPT ![s] = Report("Incorrect Admin Password", "")]
            /\ IF DashboardRaises(tickets[s])
               THEN UNCHANGED <<summary_final, recent_sales>>
               ELSE RenderDashboard(s) /\ RenderRecentSales(s)
            /\ EndRun(s)
            /\ UNCHANGED <<db, cache, tickets>>
    /\ UNCHANGED <<menu, now, runs>>

\* Lines 194-222: the Manual sale form, the operator having picked ticket tid
\* for cust, up to line 64 of save_tickets_df.
ManualSale(s, s_type, s_cat, tid, cust) ==
    /\ pc[s] = "running"
    /\ s_cat \in CategoryChoices(menu[s], s_type)
    /\ RenderDashboard(s)
    /\ LET options == avail(tickets[s], s_type, s_cat)
       IN  IF options = <<>>
           THEN /\ msg' = [msg EXCEPT ![s] =
                              Report("No available tickets in this category.", "")]
                /\ RenderRecentSales(s)
                /\ EndRun(s)
                /\ UNCHANGED <<db, cache, tickets, now>>
           ELSE /\ now < MaxClock
                /\ now' = now + 1
                /\ \E page_options \in Pages(options, tid) :
                     LET sel == Selected(options, page_options, tid)
                         idx == FirstIndex(tickets[s], sel)
                     IN  /\ tickets' = [tickets EXCEPT ![s][idx] =
                                           SellRow(tickets[s][idx], cust, now')]
                         /\ save_tickets_df(s, tickets'[s], "sale:65", sel)
                /\ UNCHANGED recent_sales
    /\ UNCHANGED <<menu, runs>>

\* Lines 225-255: the Reverse Sale form, the operator having picked ticket tid,
\* up to line 64 of save_tickets_df.
ReverseSale(s, r_type, r_cat, tid) ==
    /\ pc[s] = "running"
    /\ r_cat \in CategoryChoices(menu[s], r_type)
    /\ RenderDashboard(s)
    /\ LET options == sold_tickets(tickets[s], r_type, r_cat)
       IN  IF options = <<>>
           THEN /\ msg' = [msg EXCEPT ![s] =
                              Report("No sold tickets to reverse in this category.", "")]
                /\ RenderRecentSales(s)
                /\ EndRun(s)
                /\ UNCHANGED <<db, cache, tickets>>
           ELSE /\ \E page_options \in Pages(options, tid) :
                     LET sel == Selected(options, page_options, tid)
                         idx == FirstIndex(tickets[s], sel)
                     IN  /\ tickets' = [tickets EXCEPT ![s][idx] =
                                           ReverseRow(tickets[s][idx])]
                         /\ save_tickets_df(s, tickets'[s], "reverse:65", sel)
                /\ UNCHANGED recent_sales
    /\ UNCHANGED <<menu, now, runs>>

\* The visitor check-in of section 4.2 (the Visitors tab, after the Sales tab),
\* up to line 64 of save_tickets_df.
CheckIn(s, tid, seatsUsed) ==
    /\ pc[s] = "running"
    /\ LET df == tickets[s]
       IN  IF \A i \in 1..Len(df) : df[i].TicketID # tid
           THEN /\ msg' = [msg EXCEPT ![s] = Report("NotFound", "")]
                /\ EndRun(s)
                /\ UNCHANGED <<db, cache, tickets>>
           ELSE LET idx == FirstIndex(df, tid)
                IN  IF ~df[idx].Sold
                    THEN /\ msg' = [msg EXCEPT ![s] = Report("NotSold", "")]
                         /\ EndRun(s)
                         /\ UNCHANGED <<db, cache, tickets>>
                    ELSE /\ tickets' = [tickets EXCEPT ![s][idx] =
                                           CheckInRow(df[idx], seatsUsed)]
                         /\ save_tickets_df(s, tickets'[s], "checkin:65", tid)
    /\ RenderDashboard(s)     \* the tabs before the Visitors tab, drawn from
    /\ RenderRecentSales(s)   \* the frame as loaded
    /\ UNCHANGED <<menu, now, runs>>

\* The positions of a run behind a to_sql and before the st.cache_data.clear()
\* that follows it (lines 65, 70, 76).
BeforeClear == {"reset:65", "sale:65", "reverse:65", "checkin:65",
                "save_both:76", "save_menu:70"}

\* What the run reports behind the clear: line 117 assigns
\* st.session_state.admin_pass after the widget of that key was created (lines
\* 103-107), which raises StreamlitAPIException before lines 118-119; lines
\* 219 and 252 report the sale and the reversal.
AfterClear(p, m) ==
    CASE p = "reset:65" -> Report("StreamlitAPIException", "")
      [] p = "sale:65" -> Report("sold", m.tid)
      [] p = "reverse:65" -> Report("reversed", m.tid)
      [] p = "checkin:65" -> Report("checked in", m.tid)
      [] OTHER -> m

\* Lines 65, 70 and 76: st.cache_data.clear() of the save of session s, and
\* what the handler does behind it (lines 117, 219-220, 252-253).
CacheClear(s) ==
    /\ pc[s] \in BeforeClear
    /\ cache' = cache_cleared
    /\ pc' = [Orphaned(pc) EXCEPT ![s] = "done"]
    /\ msg' = [msg EXCEPT ![s] = AfterClear(pc[s], msg[s])]
    /\ UNCHANGED <<db, tickets, menu, summary_final, recent_sales, now, runs>>

\* A script run in which no button is pressed: the page is rendered, or the
\* dashboard raises and the exception ends the run.
ViewPage(s) ==
    /\ pc[s] = "running"
    /\ IF DashboardRaises(tickets[s])
       THEN /\ msg' = [msg EXCEPT ![s] = Report("TypeError", "")]
            /\ UNCHANGED <<summary_final, recent_sales>>
       ELSE /\ RenderDashboard(s)
            /\ RenderRecentSales(s)
            /\ UNCHANGED msg
    /\ EndRun(s)
    /\ UNCHANGED <<db, cache, tickets, menu, now, runs>>

\* A menu edit of section 6 (the Edit Menu tab) that calls
\* save_both(tickets, menu), the operator's menu m being the menu frame: line
\* 74 replaces the tickets table.
EditMenu(s, m) ==
    /\ pc[s] = "running"
    /\ m # menu[s]
    /\ RenderDashboard(s)
    /\ RenderRecentSales(s)
    /\ menu' = [menu EXCEPT ![s] = m]
    /\ db' = to_sql_tickets(db, tickets[s])
    /\ pc' = [pc EXCEPT ![s] = "save_both:75"]
    /\ UNCHANGED <<cache, tickets, msg, now, runs>>

\* save_both of session s, line 75: the menu table is replaced.
SaveBothMenu(s) ==
    /\ pc[s] = "save_both:75"
    /\ db' = to_sql_menu(db, menu[s])
    /\ pc' = [pc EXCEPT ![s] = "save_both:76"]
    /\ UNCHANGED <<cache, tickets, menu, summary_final, msg, recent_sales, now, runs>>

\* A menu edit of section 6 that calls save_menu_df(menu), the operator's menu
\* m being the menu frame: line 69 replaces the menu table.
SaveMenu(s, m) ==
    /\ pc[s] = "running"
    /\ m # menu[s]
    /\ RenderDashboard(s)
    /\ RenderRecentSales(s)
    /\ menu' = [menu EXCEPT ![s] = m]
    /\ db' = to_sql_menu(db, m)
    /\ pc' = [pc EXCEPT ![s] = "save_menu:70"]
    /\ UNCHANGED <<cache, tickets, msg, now, runs>>

\* @st.cache_data(ttl=60): the cached value expires.
CacheExpire ==
    /\ cache # <<>>
    /\ cache' = cache_cleared
    /\ UNCHANGED <<db, pc, tickets, menu, summary_final, msg, recent_sales, now, runs>>

----------------------------------------------------------------------------
(* Inventories *)

Types == {"Public", "Guest"}
Categories == {"GA", "VIP"}

\* The values of the Category selectbox.
CategoryValues == Categories \cup {NoCategory}

\* An unsold row as the table holds it after a write of the application.
UnsoldRow(id, type, cat, admit, seq) ==
    [ TicketID |-> id, Type |-> type, Category |-> cat, Admit |-> admit, Seq |-> seq,
      Sold |-> "false", Customer |-> Str(""), Visited |-> "false",
      Visitor_Seats |-> CellNum(0), Timestamp |-> None ]

\* An unsold row as an import leaves it: the mutable cells are NULL.
NullRow(id, type, cat, admit, seq) ==
    [ TicketID |-> id, Type |-> type, Category |-> cat, Admit |-> admit, Seq |-> seq,
      Sold |-> "NULL", Customer |-> StrNull, Visited |-> "NULL",
      Visitor_Seats |-> CellNull, Timestamp |-> None ]

TheMenu == {<<"Public", "GA">>, <<"Guest", "VIP">>}

\* The menus an operator edits the menu into: a category added, one removed.
EditedMenus == {TheMenu \cup {<<"Public", "VIP">>}, {<<"Public", "GA">>}}

\* The inventory of the scenarios of section 8.
ScenarioInventory ==
    [ tickets |-> << UnsoldRow("0001", "Public", "GA", CellNum(2), CellNum(1)),
                     UnsoldRow("0002", "Public", "GA", CellNum(2), CellNum(1)) >>,
      menu |-> TheMenu ]

\* An imported inventory: an unpadded id, NULL cells, a non-numeric Admit
\* and an absent Seq.
ImportedInventory ==
    [ tickets |-> << NullRow("7", "Guest", "VIP", CellText, CellNull) >>,
      menu |-> TheMenu ]

Inventories == {ScenarioInventory, ImportedInventory}

\* The ticket ids an operator of session s can ask for: those of the frame, and
\* one that no ticket has.
TicketIDs(s) == {tickets[s][i].TicketID : i \in 1..Len(tickets[s])} \cup {"0404"}

----------------------------------------------------------------------------
(* The specification *)

Init ==
    /\ db \in Inventories
    /\ cache = <<>>
    /\ pc = [s \in Sessions |-> "idle"]
    /\ tickets = [s \in Sessions |-> <<>>]
    /\ menu = [s \in Sessions |-> {}]
    /\ summary_final = [s \in Sessions |-> <<>>]
    /\ msg = [s \in Sessions |-> NoMsg]
    /\ recent_sales = [s \in Sessions |-> NotShown]
    /\ now = 0
    /\ runs = 0

Next ==
    \/ \E s \in Sessions : RunStart(s)
    \/ \E s \in Sessions : LoadTickets(s)
    \/ \E s \in Sessions : LoadReturn(s)
    \/ \E s \in Sessions : RefreshData(s)
    \/ \E s \in Sessions, pw \in Passwords : ResetDatabase(s, pw)
    \/ \E s \in Sessions, ty \in Types, cat \in CategoryValues, cust \in CustomerNames :
          \E tid \in TicketIDs(s) : ManualSale(s, ty, cat, tid, cust)
    \/ \E s \in Sessions, ty \in Types, cat \in CategoryValues :
          \E tid \in TicketIDs(s) : ReverseSale(s, ty, cat, tid)
    \/ \E s \in Sessions : CacheClear(s)
    \/ \E s \in Sessions, n \in 0..MaxSeatsUsed :
          \E tid \in TicketIDs(s) : CheckIn(s, tid, n)
    \/ \E s \in Sessions : ViewPage(s)
    \/ CacheExpire

Spec == Init /\ [][Next]_vars

----------------------------------------------------------------------------
(* The reconciliation on arbitrary ticket collections: the database starts  *)
(* with any table of up to ReconTickets rows, and a session loads it and    *)
(* renders the dashboard.                                                    *)

ReconSeqCells == {CellText, CellNum(0), CellNum(5), CellNum(12)}

\* The rows of the arbitrary tables.  Rows of a table whose Visitor_Seats
\* column is numeric: unsold, or sold and checked in.  Rows of a table whose
\* Visitor_Seats column is a text column: a sold one in a group and an unsold
\* one that groupby drops.  A row whose Visitor_Seats is NULL is in either.
ReconRows ==
    LET base == {UnsoldRow("", "Public", "GA", CellNum(2), q) : q \in ReconSeqCells}
                \cup {UnsoldRow("", "Guest", "VIP", CellNum(1), q) : q \in {CellNum(0), CellNum(5)}}
        seen(r) == [r EXCEPT !.Sold = "true", !.Customer = Str("Bob"),
                             !.Timestamp = Stamp(1), !.Visited = "true",
                             !.Visitor_Seats = CellNum(2)]
        texted == [seen(UnsoldRow("", "Public", "GA", CellNum(2), CellNum(5)))
                     EXCEPT !.Visitor_Seats = CellText]
        dropped == [UnsoldRow("", "Public", "GA", CellNum(2), CellText)
                      EXCEPT !.Visitor_Seats = CellText]
        nulled == NullRow("", "Public", "GA", CellNum(2), CellNum(5))
    IN  base \cup {seen(r) : r \in base} \cup {texted, dropped, nulled}

\* The Visitor_Seats column of a table has one type: no table holds a number
\* in it beside a text.
TypedColumn(rows) ==
    ~ \E i, j \in DOMAIN rows : /\ rows[i].Visitor_Seats.k = "num"
                                /\ rows[j].Visitor_Seats.k = "text"

ReconIds == <<"0001", "0002", "0003", "0004", "0005">>

InitRecon ==
    /\ \E n \in 0..ReconTickets : \E rows \in [1..n -> ReconRows] :
          /\ TypedColumn(rows)
          /\ db = [ tickets |-> [i \in 1..n |-> [rows[i] EXCEPT !.TicketID = ReconIds[i]]],
                    menu |-> TheMenu ]
    /\ cache = <<>>
    /\ pc = [s \in Sessions |-> "idle"]
    /\ tickets = [s \in Sessions |-> <<>>]
    /\ menu = [s \in Sessions |-> {}]
    /\ summary_final = [s \in Sessions |-> <<>>]
    /\ msg = [s \in Sessions |-> NoMsg]
    /\ recent_sales = [s \in Sessions |-> NotShown]
    /\ now = 1
    /\ runs = 0

NextRecon ==
    \/ RunStart("A")
    \/ LoadTickets("A")
    \/ LoadReturn("A")
    \/ ViewPage("A")

SpecRecon == InitRecon /\ [][NextRecon]_vars

----------------------------------------------------------------------------
(* The menu edits: sessions load, sell and edit the menu, save_both writing  *)
(* the two tables one after the other.                                       *)

NextMenu ==
    \/ \E s \in Sessions : RunStart(s)
    \/ \E s \in Sessions : LoadTickets(s)
    \/ \E s \in Sessions : LoadReturn(s)
    \/ \E s \in Sessions, ty \in Types, cat \in CategoryValues, cust \in CustomerNames :
          \E tid \in TicketIDs(s) : ManualSale(s, ty, cat, tid, cust)
    \/ \E s \in Sessions, m \in EditedMenus : EditMenu(s, m)
    \/ \E s \in Sessions : SaveBothMenu(s)
    \/ \E s \in Sessions, m \in EditedMenus : SaveMenu(s, m)
    \/ \E s \in Sessions : CacheClear(s)
    \/ \E s \in Sessions : ViewPage(s)

SpecMenu == Init /\ [][NextMenu]_vars

----------------------------------------------------------------------------
(* Properties *)

\* Session s shows a dashboard, and its frame is the one the dashboard was
\* computed from (no handler of the run has changed it).
Rendered(s) ==
    /\ pc[s] = "done"
    /\ summary_final[s] # <<>>
    /\ msg[s].text \notin {"sold", "reversed", "checked in", "OperationalError"}

\* The group rows of a rendered table: all rows but the totals row.
GroupRowsOf(table) == {i \in 1..Len(table) : table[i].Seq.label = ""}

\* A rendered group row has a Seq of 0 (the Seq the ordering rule sends last).
IsZeroSeq(row) == row.Seq.label = "" /\ row.Seq.v = 0

\* A Visitor_Seats cell holds the number 0.
IsZero(c) == c.k \in {"num", "obj"} /\ c.v = 0

\* The five mutable fields of a row are at the unsold baseline.
Baseline(t) ==
    /\ t.Sold = FALSE
    /\ t.Customer = ""
    /\ t.Visited = FALSE
    /\ IsZero(t.Visitor_Seats)
    /\ t.Timestamp = None

\* Invariant I1 of section 3 on one row.
I1(t) == ~t.Sold => (t.Customer = "" /\ ~t.Visited /\ IsZero(t.Visitor_Seats)
                     /\ t.Timestamp = None)

\* The row of ticket tid in a frame.
RowOf(df, tid) == df[FirstIndex(df, tid)]

HasTicket(df, tid) == \E i \in 1..Len(df) : df[i].TicketID = tid

\* The handler of the run of session s mutates the frame and replaces the
\* table in this step, and stands before the clear at position at.
Saves(s, at) == pc[s] = "running" /\ pc'[s] = at

\* The positions behind the write of a handler that changes tickets.
MutationSaves == {"reset:65", "sale:65", "reverse:65", "checkin:65"}

\* C1: every ticket, in the frames of the sessions and in the persisted
\* collection, satisfies I1 after any sequence of sell, reverse sale, check-in
\* and reset operations, accepted or rejected.
C1_I1Holds ==
    /\ \A s \in Sessions : \A i \in 1..Len(tickets[s]) : I1(tickets[s][i])
    /\ \A i \in 1..Len(db.tickets) : I1(Persisted(db)[i])

\* A check-in was rejected on a ticket that had been sold earlier and is
\* unsold again (after a reversal or a reset).
C1_Witness ==
    \E s \in Sessions :
        /\ msg[s].text = "NotSold"
        /\ now >= 1
        /\ \A i \in 1..Len(db.tickets) : ~Persisted(db)[i].Sold

\* C2: a sale of a ticket that the persisted collection holds as sold changes
\* no field of any ticket (Customer and Timestamp of the first sale stay).
C2_SoldTicketIsNotSoldAgain ==
    [][\A s \in Sessions, ty \in Types, cat \in Categories, cust \in CustomerNames :
         \A tid \in TicketIDs(s) :
            ( /\ ManualSale(s, ty, cat, tid, cust)
              /\ HasTicket(Persisted(db), tid)
              /\ RowOf(Persisted(db), tid).Sold )
            => db' = db]_vars

\* C3: a reversal leaves the five mutable fields of the ticket at the values
\* they had before the sale (false, "", false, 0, null), in the frame and in the
\* persisted collection, whether or not the ticket was checked in meanwhile.
C3_ReverseRestoresBaseline ==
    [][\A s \in Sessions :
         Saves(s, "reverse:65") =>
            /\ Baseline(RowOf(tickets'[s], msg'[s].tid))
            /\ Baseline(RowOf(Persisted(db'), msg'[s].tid))]_vars

\* A sale was reversed while the frame of the other session still shows the
\* ticket as checked in.
C3_Witness ==
    \E s, s2 \in Sessions :
        /\ msg[s].text = "reversed"
        /\ Baseline(RowOf(tickets[s], msg[s].tid))
        /\ HasTicket(tickets[s2], msg[s].tid)
        /\ RowOf(tickets[s2], msg[s].tid).Visited

\* C4: a reset with a password other than the admin secret reports the wrong
\* password and changes neither the frames nor the persisted collection nor
\* the cache.
C4_WrongSecretChangesNothing ==
    [][\A s \in Sessions, pw \in Passwords :
         (pw # AdminSecret /\ ResetDatabase(s, pw)) =>
            /\ msg'[s].text = "Incorrect Admin Password"
            /\ UNCHANGED <<db, cache, tickets>>]_vars

\* A reset was rejected while a ticket is sold.
C4_Witness ==
    \E s \in Sessions :
        /\ msg[s].text = "Incorrect Admin Password"
        /\ \E i \in 1..Len(tickets[s]) : tickets[s][i].Sold
        /\ \E i \in 1..Len(db.tickets) : Persisted(db)[i].Sold

\* C5: a reset with the admin secret, its write succeeding, leaves every ticket
\* at the baseline, in the frame and in the persisted collection, in one step:
\* the table written holds all the tickets and none of them unreset.
C5_ResetWipesEveryTicket ==
    [][\A s \in Sessions :
         (ResetDatabase(s, AdminSecret) /\ msg'[s].text # "OperationalError") =>
            /\ pc'[s] = "reset:65"
            /\ Len(db'.tickets) = Len(tickets[s])
            /\ \A i \in 1..Len(tickets'[s]) : Baseline(tickets'[s][i])
            /\ \A i \in 1..Len(db'.tickets) : Baseline(Persisted(db')[i])]_vars

\* A reset has been written and its run is over, every persisted ticket is at
\* the baseline, and the frame of the other session still shows a ticket sold
\* and checked in.
C5_Witness ==
    \E s, s2 \in Sessions :
        /\ msg[s].text = "StreamlitAPIException"
        /\ \A i \in 1..Len(db.tickets) : Baseline(Persisted(db)[i])
        /\ \E i \in 1..Len(tickets[s2]) : tickets[s2][i].Sold /\ tickets[s2][i].Visited

\* C6: the Total_Tickets of the group rows of the summary add up to the number
\* of tickets of the collection: no ticket is left out of the summary.
C6_TotalTicketsCoverCollection ==
    \A s \in Sessions : Rendered(s) =>
        LET table == summary_final[s]
            tt == [i \in GroupRowsOf(table) |-> table[i].Total_Tickets]
        IN  SumOver(GroupRowsOf(table), tt) = Len(tickets[s])

\* C7: in the summary every group with a Seq of 0 comes after every group
\* with a real (non-zero) Seq, however large that Seq is.
C7_ZeroSeqSortsLast ==
    \A s \in Sessions : Rendered(s) =>
        LET table == summary_final[s]
        IN  \A i, j \in GroupRowsOf(table) :
                (IsZeroSeq(table[i]) /\ ~IsZeroSeq(table[j])) => j < i

\* C8: the rendered table ends with exactly one totals row, labelled "Total",
\* whose aggregate columns are the sums of the columns over the group rows.
\* (Violated: the totals row has no Total_Visitors and no Balance_Visitors
\* when the Visitor_Seats column of the frame is of dtype object, as it is for
\* the empty table.)
C8_TotalsRowIsLastAndSums ==
    \A s \in Sessions : Rendered(s) =>
        LET table == summary_final[s]
            n == Len(table)
            G == GroupRowsOf(table)
            last == table[n]
        IN  /\ n >= 1
            /\ last.Seq.label = "Total"
            /\ G = 1..(n - 1)
            /\ last.Total_Tickets = SumOver(G, [i \in G |-> table[i].Total_Tickets])
            /\ last.Tickets_Sold = SumOver(G, [i \in G |-> table[i].Tickets_Sold])
            /\ last.Total_Seats = SumOver(G, [i \in G |-> table[i].Total_Seats])
            /\ last.Seats_sold = SumOver(G, [i \in G |-> table[i].Seats_sold])
            /\ last.Total_Visitors = Num(SumOver(G, [i \in G |-> table[i].Total_Visitors]))
            /\ last.Balance_Tickets = SumOver(G, [i \in G |-> table[i].Balance_Tickets])
            /\ last.Balance_Seats = SumOver(G, [i \in G |-> table[i].Balance_Seats])
            /\ last.Balance_Visitors = Num(SumOver(G, [i \in G |-> table[i].Balance_Visitors]))

\* The tickets of a frame that belong to the group of a summary row.
MembersOf(df, row) ==
    {i \in 1..Len(df) : /\ ~df[i].Seq.nan
                        /\ df[i].Seq.v = row.Seq.v
                        /\ df[i].Type = row.Type
                        /\ df[i].Category = row.Category
                        /\ df[i].Admit = row.Admit}

\* C9: every group row of a rendered summary agrees with the tickets of its
\* group: Tickets_Sold and Balance_Tickets count the sold and the unsold
\* tickets, the seat columns are these counts times Admit, and Balance_Visitors
\* is Seats_sold minus the Visitor_Seats of the group.
C9_GroupRowsAgreeWithTickets ==
    \A s \in Sessions : Rendered(s) =>
        LET table == summary_final[s]
            df == tickets[s]
        IN  \A g \in GroupRowsOf(table) :
                LET row == table[g]
                    M == MembersOf(df, row)
                    nSold == Cardinality({i \in M : df[i].Sold})
                    nUnsold == Cardinality({i \in M : ~df[i].Sold})
                    visitors == SumOver(M, [i \in M |-> df[i].Visitor_Seats.v])
                IN  /\ row.Tickets_Sold = nSold
                    /\ row.Balance_Tickets = nUnsold
                    /\ row.Seats_sold = nSold * row.Admit
                    /\ row.Balance_Seats = nUnsold * row.Admit
                    /\ row.Balance_Visitors = nSold * row.Admit - visitors

\* The scenario of section 8 after the check-in: of the two Admit=2 tickets one
\* is sold and checked in with 2 seats, and Balance_Visitors of the group is 0.
C9_Witness ==
    \E s \in Sessions :
        /\ Rendered(s)
        /\ Len(summary_final[s]) = 2
        /\ LET row == summary_final[s][1]
           IN  /\ row.Admit = 2
               /\ row.Total_Tickets = 2
               /\ row.Tickets_Sold = 1
               /\ row.Total_Seats = 4
               /\ row.Seats_sold = 2
               /\ row.Balance_Tickets = 1
               /\ row.Balance_Seats = 2
               /\ row.Total_Visitors = 2
               /\ row.Balance_Visitors = 0

\* C10: a mutation whose write succeeds writes the whole frame to the table
\* (the table read back is the frame written) and clears the cache before it
\* reports anything; and every load, served from the cache or read from the
\* table at line 49, returns the persisted collection of that moment, never
\* an older cached one.
C10_WriteThroughAndFreshLoad ==
    [][\A s \in Sessions :
         /\ (pc[s] = "running" /\ pc'[s] \in MutationSaves) =>
                /\ db'.tickets = [i \in 1..Len(tickets'[s]) |-> RowToSql(tickets'[s][i])]
                /\ Persisted(db') = Values(tickets'[s])
                /\ msg'[s].text = ""
         /\ (pc[s] \in MutationSaves /\ pc'[s] # pc[s]) =>
                /\ pc'[s] = "done"
                /\ cache' = <<>>
         /\ (RunStart(s) /\ pc'[s] = "running") => Values(tickets'[s]) = Persisted(db)
         /\ LoadTickets(s) => Values(tickets'[s]) = Persisted(db)]_vars

\* C11: a load that reads the menu table while save_both of another session
\* is between its two writes (the tickets table replaced, the menu table not
\* yet) and that has read the tickets that save_both wrote returns the menu
\* that save_both writes: no load returns the tickets of a save_both together
\* with the menu of before.
C11_LoadSeesNoHalfWrittenState ==
    [][\A s, s2 \in Sessions :
         ( /\ LoadReturn(s)
           /\ pc[s2] = "save_both:75"
           /\ tickets[s] = tickets[s2] )
         => menu'[s] = menu[s2]]_vars

\* The handler of the run of session s calls save_tickets_df in this step and
\* to_sql raises.
FailedWrite(s) == pc[s] = "running" /\ msg'[s].text = "OperationalError"

\* C12: a handler step whose write fails is not committed.  The table and the
\* cache (which holds a copy the handler has not touched) are as before the
\* operation; the exception ends the run, and what the run has drawn is drawn
\* from the frame before the operation.  The run that follows the failure
\* loads its frame anew (the cached collection, or, the cache being empty, no
\* frame until line 49 reads the table): the mutated frame of the failed run
\* is seen by nobody.
C12_FailedWriteIsNotCommitted ==
    [][\A s \in Sessions :
         /\ FailedWrite(s) =>
                /\ db' = db
                /\ cache' = cache
                /\ pc'[s] = "done"
                /\ summary_final'[s] \in {summary_final[s], Dashboard(tickets[s])}
                /\ recent_sales'[s] \in {recent_sales[s],
                                          Shown(RecentSalesRows(tickets[s]))}
         /\ (RunStart(s) /\ msg[s].text = "OperationalError") =>
                tickets'[s] = IF cache # <<>> THEN cache[1].tickets ELSE <<>>]_vars

\* The sale of a run has failed: the frame of the run shows a ticket sold that
\* the cached collection and the persisted one hold unsold with no customer,
\* and the cached collection is the persisted one.
C12_Witness ==
    \E s \in Sessions :
        /\ pc[s] = "done"
        /\ msg[s].text = "OperationalError"
        /\ cache # <<>>
        /\ Values(cache[1].tickets) = Persisted(db)
        /\ \E i \in 1..Len(tickets[s]) :
              /\ tickets[s][i].Sold
              /\ ~cache[1].tickets[i].Sold
              /\ cache[1].tickets[i].Customer = ""
              /\ \A j \in 1..Len(tickets[s]) :
                    j # i => tickets[s][j] = cache[1].tickets[j]

\* Every ticket with Visited = true has Sold = true, in the frames and in the
\* persisted collection (whose cells load as true exactly when they are true).
VisitedOnlyIfSold ==
    /\ \A s \in Sessions : \A i \in 1..Len(tickets[s]) :
          tickets[s][i].Visited => tickets[s][i].Sold
    /\ \A i \in 1..Len(db.tickets) :
          db.tickets[i].Visited = "true" => db.tickets[i].Sold = "true"

\* What a check-in can report.
CheckInTexts == {"NotFound", "NotSold", "OperationalError"}

\* A step of session s that a check-in can be.
CheckInStep(s) ==
    /\ pc[s] = "running"
    /\ \/ pc'[s] = "checkin:65"
       \/ pc'[s] = "done" /\ msg'[s].text \in CheckInTexts

\* C13: a check-in of a ticket that the collection of the operation holds as
\* unsold is rejected with NotSold and changes neither the frame nor the table
\* nor the cache; and every step keeps (from the start on) every ticket with
\* Visited = true at Sold = true, in the frames and in the persisted collection.
C13_UnsoldCheckInRejected ==
    [][/\ VisitedOnlyIfSold /\ VisitedOnlyIfSold'
       /\ \A s \in Sessions :
            CheckInStep(s) =>
            \A tid \in TicketIDs(s) :
                (HasTicket(tickets[s], tid) /\ ~RowOf(tickets[s], tid).Sold) =>
                    \A n \in 0..MaxSeatsUsed :
                        CheckIn(s, tid, n) =>
                            /\ msg'[s].text = "NotSold"
                            /\ UNCHANGED <<db, cache, tickets>>]_vars

\* A check-in of an unsold ticket was rejected while another ticket is sold
\* and checked in.
C13_Witness ==
    \E s \in Sessions :
        /\ msg[s].text = "NotSold"
        /\ \E i \in 1..Len(db.tickets) :
              Persisted(db)[i].Sold /\ Persisted(db)[i].Visited

\* The fields of a ticket that no operation assigns.
StaticFields(t) == <<t.TicketID, t.Type, t.Category, t.Admit, t.Seq>>
StaticOf(df) == [i \in 1..Len(df) |-> StaticFields(df[i])]

\* C14: in every reachable state the persisted collection and every loaded
\* frame hold the tickets of the loaded inventory, in its order, with the
\* same TicketID, Type, Category, Admit and Seq, and no TicketID twice.
C14_InventoryIsFixed ==
    \E inv \in Inventories :
        LET orig == StaticOf(Persisted(inv))
        IN  /\ StaticOf(Persisted(db)) = orig
            /\ \A s \in Sessions : tickets[s] # <<>> => StaticOf(tickets[s]) = orig
            /\ \A i, j \in 1..Len(orig) : i # j => orig[i][1] # orig[j][1]

\* The imported inventory (unpadded id, non-numeric Admit, absent Seq) has been
\* written back by a sale and a check-in: the table now holds the padded id.
C14_Witness ==
    /\ Len(db.tickets) = 1
    /\ db.tickets[1].TicketID = "0007"
    /\ Persisted(db)[1].Visited

\* The TicketIDs of the sold tickets of a frame.
SoldIds(df) == {df[i].TicketID : i \in {j \in 1..Len(df) : df[j].Sold}}

\* C15: a shown recent-sales view lists exactly the sold tickets of the frame,
\* each once, with their Customer and Timestamp, numbered 1..n, no row having a
\* later Timestamp than a row above it; the ticket sold last of all (Timestamp
\* equal to the clock) is row 1 if the frame holds it as sold.
C15_RecentSalesLatestFirst ==
    \A s \in Sessions : recent_sales[s].shown =>
        LET v == recent_sales[s].rows
            df == tickets[s]
        IN  /\ {v[i].TicketID : i \in 1..Len(v)} = SoldIds(df)
            /\ Len(v) = Cardinality(SoldIds(df))
            /\ \A i \in 1..Len(v) :
                  /\ v[i].Sno = i
                  /\ v[i].Customer = RowOf(df, v[i].TicketID).Customer
                  /\ v[i].Timestamp = RowOf(df, v[i].TicketID).Timestamp
                  /\ ~v[i].Timestamp.null
            /\ \A i, j \in 1..Len(v) : i < j => v[i].Timestamp.v >= v[j].Timestamp.v
            /\ \A j \in 1..Len(df) :
                  (df[j].Sold /\ df[j].Timestamp = Stamp(now)) =>
                      v[1].TicketID = df[j].TicketID

\* A view of two sales is shown, the ticket sold second (the second of the
\* frame) in row 1 and the ticket sold first in row 2.
C15_Witness ==
    \E s \in Sessions :
        /\ recent_sales[s].shown
        /\ Len(recent_sales[s].rows) = 2
        /\ recent_sales[s].rows[1].TicketID = "0002"
        /\ recent_sales[s].rows[1].Timestamp = Stamp(2)
        /\ recent_sales[s].rows[2].Timestamp = Stamp(1)

\* C16: a reset whose write succeeds, from a state that a reset has left (every persisted
\* ticket at the baseline, the table as the application writes it) leaves the
\* persisted collection as it is, and the frame of the reset equals it.
C16_ResetTwiceIsResetOnce ==
    [][\A s \in Sessions :
         ( /\ ResetDatabase(s, AdminSecret)
           /\ pc'[s] = "reset:65"
           /\ \A i \in 1..Len(db.tickets) : Baseline(Persisted(db)[i])
           /\ db.tickets = [i \in 1..Len(db.tickets) |-> RowToSql(Persisted(db)[i])] )
         => /\ db' = db
            /\ \E downcast \in Downcasts : tickets'[s] = ReadTickets(db, downcast)]_vars

\* Both sessions have reset the database, one after the other, after a sale.
C16_Witness ==
    /\ \A s \in Sessions : msg[s].text = "StreamlitAPIException"
    /\ now >= 1
    /\ \A i \in 1..Len(db.tickets) : Baseline(Persisted(db)[i])

\* The reports of the handlers that change one ticket.
Mutations == {"sold", "reversed", "checked in"}

\* Session s has changed one ticket and replaced the table in its run.
HasSaved(s) ==
    \/ pc[s] \in MutationSaves \ {"reset:65"}
    \/ pc[s] = "done" /\ msg[s].text \in Mutations

\* Two frames hold the same rows, but for the row of ticket tid.
SameButFor(df1, df2, tid) ==
    /\ Len(df1) = Len(df2)
    /\ \A i \in 1..Len(df1) : df1[i].TicketID # tid => df1[i] = df2[i]

\* C17: sessions s and s2 hold the same snapshot, s2 has changed its ticket and
\* saved, and s now changes another ticket and saves: the persisted collection
\* is then the frame of s, row by row; the ticket of s2 is back at the row of
\* the snapshot, the change of s2 is gone.
C17_LastWriteWins ==
    [][\A s, s2 \in Sessions :
         ( /\ s # s2
           /\ pc[s] = "running" /\ pc'[s] \in MutationSaves \ {"reset:65"}
           /\ HasSaved(s2)
           /\ msg[s2].tid # msg'[s].tid
           /\ Persisted(db) = Values(tickets[s2])
           /\ SameButFor(tickets[s], tickets[s2], msg[s2].tid)
           /\ RowOf(tickets[s], msg[s2].tid) # RowOf(tickets[s2], msg[s2].tid) )
         => /\ Persisted(db') = Values(tickets'[s])
            /\ RowOf(Persisted(db'), msg[s2].tid) = RowOf(Values(tickets[s]), msg[s2].tid)
            /\ RowOf(Persisted(db'), msg[s2].tid) # RowOf(Persisted(db), msg[s2].tid)
            /\ RowOf(Persisted(db'), msg'[s].tid) = RowOf(Values(tickets'[s]), msg'[s].tid)]_vars

\* Both sessions report a sale, of different tickets, and the persisted
\* collection holds only one of the two as sold.
C17_Witness ==
    \E s, s2 \in Sessions :
        /\ msg[s].text = "sold" /\ msg[s2].text = "sold"
        /\ msg[s].tid # msg[s2].tid
        /\ RowOf(Persisted(db), msg[s].tid).Sold
        /\ ~RowOf(Persisted(db), msg[s2].tid).Sold

\* C18: a sale whose write succeeds changes the frame only in Sold, Customer and
\* Timestamp of the ticket sold, whose Visited is false and Visitor_Seats 0
\* afterwards; the table written is that frame, so a sale from a frame that
\* is the persisted collection changes no other persisted ticket.
C18_SaleTouchesThreeFields ==
    [][\A s \in Sessions :
         Saves(s, "sale:65") =>
            LET idx == FirstIndex(tickets[s], msg'[s].tid)
                old == tickets[s][idx]
                new == tickets'[s][idx]
            IN  /\ Len(tickets'[s]) = Len(tickets[s])
                /\ \A i \in 1..Len(tickets[s]) : i # idx => tickets'[s][i] = tickets[s][i]
                /\ new = [old EXCEPT !.Sold = TRUE, !.Customer = new.Customer,
                                     !.Timestamp = Stamp(now')]
                /\ ~new.Visited /\ IsZero(new.Visitor_Seats)
                /\ Persisted(db') = Values(tickets'[s])
                /\ Persisted(db) = Values(tickets[s]) =>
                      \A i \in 1..Len(tickets[s]) :
                          i # idx => Persisted(db')[i] = Persisted(db)[i]]_vars

\* A ticket has been sold while another ticket is sold and checked in.
C18_Witness ==
    \E s \in Sessions :
        /\ msg[s].text = "sold"
        /\ \E i \in 1..Len(db.tickets) :
              /\ Persisted(db)[i].TicketID # msg[s].tid
              /\ Persisted(db)[i].Visited
              /\ Persisted(db)[i].Visitor_Seats.v > 0

\* C19: in every reachable state every ticket with Sold = true has a Timestamp,
\* in the frames and in the persisted collection; a sale leaves the clock
\* reading of the sale in it; and a persisted Timestamp becomes null only in a
\* step in which the ticket goes from sold to unsold.
C19_SoldHasTimestamp ==
    /\ [](/\ \A s \in Sessions : \A i \in 1..Len(tickets[s]) :
                tickets[s][i].Sold => ~tickets[s][i].Timestamp.null
          /\ LET held == Persisted(db)
             IN  \A i \in 1..Len(held) :
                     held[i].Sold => ~held[i].Timestamp.null)
    /\ [][/\ \A s \in Sessions : Saves(s, "sale:65") =>
                RowOf(Persisted(db'), msg'[s].tid).Timestamp = Stamp(now')
          /\ db' # db =>
                LET before == Persisted(db)
                    after == Persisted(db')
                IN  \A i \in 1..Len(before) :
                        (~before[i].Timestamp.null /\ after[i].Timestamp.null)
                        => before[i].Sold /\ ~after[i].Sold]_vars

\* A ticket was sold, reversed by the other session, and sold again: it is
\* sold with the Timestamp of the second sale.
C19_Witness ==
    \E s, s2 \in Sessions :
        /\ msg[s].text = "sold" /\ msg[s2].text = "reversed"
        /\ msg[s].tid = msg[s2].tid
        /\ RowOf(Persisted(db), msg[s].tid).Sold
        /\ RowOf(Persisted(db), msg[s].tid).Timestamp = Stamp(2)

====
